---- MODULE Spec2Model ----
(***************************************************************************)
(* A model of the job-discovery-to-application pipeline:                   *)
(*   scraper.py            the pagination crawl over search-result pages   *)
(*   database.py           the jobs / applications tables and their writes *)
(*   follow_up_manager.py  the follow-up selection and dispatch            *)
(*   orchestrator.py       run_daily_scraping and score_unscored_jobs      *)
(* The browser, the storage service, the text generator and the mail       *)
(* transport are the environment: each call to them answers                *)
(* nondeterministically with one of the answers the code distinguishes.    *)
(***************************************************************************)
EXTENDS Integers, Sequences, FiniteSets, TLC

VARIABLES
    \* ---- scraper.py: scrape_jobs_from_search_page
    c_pc,           \* position in the crawl
    max_pages,      \* the argument max_pages
    page_i,         \* the loop variable i of "for i in range(max_pages)"
    job_urls,       \* the job URLs of the current result page still to expand
    all_job_data,   \* the list all_job_data
    page_doc,       \* the document the browser page currently shows
    pages_scraped,  \* history: number of loop iterations entered
    error_page,     \* history: 0, or the iteration (1-based) whose error ended the crawl
    crawl_result,   \* the returned list, once returned
    \* ---- the storage service
    jobs,           \* table jobs, a row's id is its index
    applications,   \* table applications, a row's id is its index
    today,          \* datetime.date.today(), as a day number
    \* ---- orchestrator.py / follow_up_manager.py
    runs,           \* the invocations of run_daily_scraping / send_follow_up_emails
    last_save,      \* history: outcome of the last direct save_job_data call
    mailed,         \* history: the follow-up emails handed to the mail transport
    \* ---- functions without state: ai_matcher.py, scraper.py extractors
    call            \* the call under study: its arguments and what it gave back

crawlVars == <<c_pc, max_pages, page_i, job_urls, all_job_data, page_doc,
               pages_scraped, error_page, crawl_result>>
dbVars    == <<jobs, applications, today>>
runVars   == <<runs, last_save, mailed>>
pureVars  == <<call>>
vars      == <<c_pc, max_pages, page_i, job_urls, all_job_data, page_doc,
               pages_scraped, error_page, crawl_result,
               jobs, applications, today, runs, last_save, mailed, call>>

None == "None"
\* SQL NULL in the numeric column relevance_score (scores are >= 0).
Null == 0 - 1
\* No function call under study.
NoCall == [fn |-> "none"]

(***************************************************************************)
(* Bounds of the model.                                                    *)
(***************************************************************************)
MaxPagesArg == 2     \* max_pages ranges over 0..MaxPagesArg
MaxUrls     == 2     \* job URLs a result page can list: 1..MaxUrls

JobUrls == 1..MaxUrls

(***************************************************************************)
(* scraper.py: scrape_jobs_from_search_page                                *)
(***************************************************************************)

\* "for i in range(max_pages)": the loop body is entered while i < max_pages.
LoopOffByOne(i, n) == i <= n
InRange(i, n) == i < n

\* "job_urls = list(set(job_urls))": the duplicates of ONE page's link list
\* are removed; nothing is remembered from the pages before.
DedupPage(found, data) == found

\* "for job_url in job_urls": the list is walked in one fixed order.
FirstUrl(urls) == CHOOSE u \in urls : \A v \in urls : u <= v

\* The record appended for one job URL.  Each extractor catches its own
\* exceptions and returns None, so a record is appended whether or not the
\* job page could be loaded.
JobRecord(u, loaded, pg) == [url |-> u, loaded |-> loaded, page |-> pg]

\* "except Exception as e: print(...)" followed by "return all_job_data".
DropOnError(data) == << >>
OnCrawlError(data) == data

InitCrawl ==
    /\ c_pc = "start"
    /\ max_pages \in 0..MaxPagesArg
    /\ page_i = 0
    /\ job_urls = {}
    /\ all_job_data = << >>
    /\ page_doc = "blank"
    /\ pages_scraped = 0
    /\ error_page = 0
    /\ crawl_result = None

CrawlReturn(data) ==
    /\ c_pc' = "returned"
    /\ crawl_result' = data

\* lines 255-257: the browser is launched outside the try block.
CrawlLaunchFails ==
    /\ c_pc = "start"
    /\ c_pc' = "raised"
    /\ UNCHANGED <<max_pages, page_i, job_urls, all_job_data, page_doc,
                   pages_scraped, error_page, crawl_result>>
    /\ UNCHANGED <<jobs, applications, today, runs, last_save, mailed, call>>

\* line 259: page.goto(search_url), then the loop is entered or skipped.
CrawlGoto ==
    /\ c_pc = "start"
    /\ page_doc' = "results"
    /\ IF InRange(0, max_pages)
         THEN /\ c_pc' = "collect"
              /\ UNCHANGED crawl_result
         ELSE CrawlReturn(all_job_data)
    /\ UNCHANGED <<max_pages, page_i, job_urls, all_job_data,
                   pages_scraped, error_page>>
    /\ UNCHANGED <<jobs, applications, today, runs, last_save, mailed, call>>

CrawlGotoFails ==
    /\ c_pc = "start"
    /\ error_page' = 1
    /\ CrawlReturn(OnCrawlError(all_job_data))
    /\ UNCHANGED <<max_pages, page_i, job_urls, all_job_data, page_doc,
                   pages_scraped>>
    /\ UNCHANGED <<jobs, applications, today, runs, last_save, mailed, call>>

\* lines 263-287: wait for the page to settle and collect its job links.
CrawlCollect ==
    /\ c_pc = "collect"
    /\ \E found \in SUBSET JobUrls :
          job_urls' = DedupPage(found, all_job_data)
    /\ pages_scraped' = pages_scraped + 1
    /\ c_pc' = "expand"
    /\ UNCHANGED <<max_pages, page_i, all_job_data, page_doc, error_page,
                   crawl_result>>
    /\ UNCHANGED <<jobs, applications, today, runs, last_save, mailed, call>>

CrawlCollectFails ==
    /\ c_pc = "collect"
    /\ pages_scraped' = pages_scraped + 1
    /\ error_page' = page_i + 1
    /\ CrawlReturn(OnCrawlError(all_job_data))
    /\ UNCHANGED <<max_pages, page_i, job_urls, all_job_data, page_doc>>
    /\ UNCHANGED <<jobs, applications, today, runs, last_save, mailed, call>>

\* lines 289-304: one iteration of "for job_url in job_urls".
CrawlExpand ==
    /\ c_pc = "expand"
    /\ job_urls # {}
    /\ \E loaded \in BOOLEAN :
       LET u == FirstUrl(job_urls) IN
          /\ all_job_data' = Append(all_job_data, JobRecord(u, loaded, page_i + 1))
          /\ job_urls' = job_urls \ {u}
          /\ page_doc' = IF loaded THEN "job" ELSE page_doc
    /\ UNCHANGED <<c_pc, max_pages, page_i, pages_scraped, error_page,
                   crawl_result>>
    /\ UNCHANGED <<jobs, applications, today, runs, last_save, mailed, call>>

\* lines 306-324: look for the next-page control and activate it.
CrawlNext ==
    /\ c_pc = "expand"
    /\ job_urls = {}
    /\ \E next_button \in {"absent", "disabled", "enabled"} :
          IF next_button = "enabled"
            THEN /\ page_i' = page_i + 1
                 /\ page_doc' = IF page_doc = "results" THEN "results" ELSE "other"
                 /\ IF InRange(page_i + 1, max_pages)
                      THEN /\ c_pc' = "collect"
                           /\ UNCHANGED crawl_result
                      ELSE CrawlReturn(all_job_data)
            ELSE /\ CrawlReturn(all_job_data)
                 /\ UNCHANGED <<page_i, page_doc>>
    /\ UNCHANGED <<max_pages, job_urls, all_job_data, pages_scraped, error_page>>
    /\ UNCHANGED <<jobs, applications, today, runs, last_save, mailed, call>>

CrawlNextFails ==
    /\ c_pc = "expand"
    /\ job_urls = {}
    /\ error_page' = page_i + 1
    /\ CrawlReturn(OnCrawlError(all_job_data))
    /\ UNCHANGED <<max_pages, page_i, job_urls, all_job_data, page_doc,
                   pages_scraped>>
    /\ UNCHANGED <<jobs, applications, today, runs, last_save, mailed, call>>

NextCrawl ==
    \/ CrawlLaunchFails
    \/ CrawlGoto
    \/ CrawlGotoFails
    \/ CrawlCollect
    \/ CrawlCollectFails
    \/ CrawlExpand
    \/ CrawlNext
    \/ CrawlNextFails

(***************************************************************************)
(* The storage service: tables jobs, applications and users.               *)
(***************************************************************************)
MaxLinks == 1        \* application links: 1..MaxLinks
MaxDay   == 8        \* the last day the calendar reaches

Links == 1..MaxLinks

\* Texts are sequences of words.
EmptyText == << >>
Descriptions == { EmptyText, <<"Python">>, <<"Python", "Django">> }

\* The description on the page behind an application link.
DescOf(link) ==
    CASE link % 3 = 1 -> <<"Python", "Django">>
      [] link % 3 = 2 -> EmptyText
      [] OTHER        -> <<"Python">>

\* Table users.  User 3 has no row.
UserIds == {1, 2, 3}
UserRows == {1, 2}
profile_text(u) == IF u = 1 THEN <<"python", "django">> ELSE <<"python">>
preferred_criteria(u) ==
    [location_preferences  |-> IF u = 2 THEN {"remote"} ELSE {},
     job_duration          |-> "",
     technologies_keywords |-> {},
     preferred_languages   |-> {}]

\* database.py:22-33, the columns of jobs the pipeline reads and writes.
JobRow(link, description, score) ==
    [application_link |-> link, description |-> description,
     relevance_score |-> score, status |-> "pending"]

\* database.py:30, "application_link VARCHAR(255) UNIQUE NOT NULL".
LinkTaken(tbl, link) == \E k \in 1..Len(tbl) : tbl[k].application_link = link

\* database.py:69, "UNIQUE(job_id, user_id)".
NoPairConstraint(tbl, job_id, user_id) == FALSE
PairTaken(tbl, job_id, user_id) ==
    \E k \in 1..Len(tbl) : tbl[k].job_id = job_id /\ tbl[k].user_id = user_id

\* database.py:62-63, the foreign keys of applications.
ReferencesExist(job_id, user_id) ==
    job_id \in 1..Len(jobs) /\ user_id \in UserRows

\* What the storage service answers to a write: the row is written, or the
\* service reports an error, or the call raises.
WriteAnswers == {"data", "error", "exception"}

\* save_job_data: the table after the call.  Every answer is swallowed: an
\* error is printed, an exception is caught, and nothing is returned.
UpsertJob(tbl, job_data, answer) ==
    IF answer = "data" /\ LinkTaken(tbl, job_data.application_link)
      THEN [k \in 1..Len(tbl) |->
              IF tbl[k].application_link = job_data.application_link
                THEN job_data ELSE tbl[k]]
      ELSE IF answer = "data" THEN Append(tbl, job_data) ELSE tbl
save_job_data(tbl, job_data, answer) ==
    IF answer = "data" /\ ~LinkTaken(tbl, job_data.application_link)
      THEN Append(tbl, job_data)
      ELSE tbl

\* save_application_details: the table after the call and the returned id
\* (0 stands for None).
ApplicationRow(job_id, user_id, status) ==
    [job_id |-> job_id, user_id |-> user_id, application_date |-> today,
     status |-> status]
ReportIdAnyway(tbl, job_id, user_id, status, answer) == [tbl |-> tbl, id |-> 1]
save_application_details(tbl, job_id, user_id, status, answer) ==
    IF /\ answer = "data"
       /\ ~PairTaken(tbl, job_id, user_id)
       /\ ReferencesExist(job_id, user_id)
      THEN [tbl |-> Append(tbl, ApplicationRow(job_id, user_id, status)),
            id  |-> Len(tbl) + 1]
      ELSE [tbl |-> tbl, id |-> 0]

\* update_job_relevance_score, update_job_status, log_application_status:
\* an update by id; an error or an exception is printed and swallowed.
ScoreAndMark(tbl, job_id, score, answer) ==
    IF answer = "data" /\ job_id \in 1..Len(tbl)
      THEN [tbl EXCEPT ![job_id].relevance_score = score,
                       ![job_id].status = "scored"] ELSE tbl
update_job_relevance_score(tbl, job_id, score, answer) ==
    IF answer = "data" /\ job_id \in 1..Len(tbl)
      THEN [tbl EXCEPT ![job_id].relevance_score = score] ELSE tbl
update_job_status(tbl, job_id, status, answer) ==
    IF answer = "data" /\ job_id \in 1..Len(tbl)
      THEN [tbl EXCEPT ![job_id].status = status] ELSE tbl
log_application_status(tbl, application_id, status, answer) ==
    IF answer = "data" /\ application_id \in 1..Len(tbl)
      THEN [tbl EXCEPT ![application_id].status = status] ELSE tbl

(***************************************************************************)
(* ai_matcher.py and relevance_scorer.py                                   *)
(***************************************************************************)
\* A Python value handed to the scorer: a str with its words, or a dict.
PyStr(text) == [type |-> "str", text |-> text]
PyDict == [type |-> "dict", text |-> << >>]

\* ai_matcher.py:19-20: lower-case, then drop every character that is not a
\* letter or white space.  "" is a word that vanished.
Clean(w) ==
    CASE w = "Python" -> "python"
      [] w = "Django" -> "django"
      [] w = "The"    -> "the"
      [] w = "42"     -> ""
      [] OTHER        -> w
StopWords == {"the", "and"}
\* TfidfVectorizer's token pattern keeps words of two or more characters.
OneLetterWords == {"r", "c"}

RECURSIVE KeepWords(_)
KeepWords(text) ==
    IF text = << >> THEN << >>
    ELSE LET w == Clean(Head(text)) IN
         IF w = "" \/ w \in StopWords
           THEN KeepWords(Tail(text))
           ELSE <<w>> \o KeepWords(Tail(text))
preprocess_text(text) == KeepWords(text)

Terms(doc) == {doc[k] : k \in 1..Len(doc)} \ OneLetterWords
Tf(doc, t) == Cardinality({k \in 1..Len(doc) : doc[k] = t})

RECURSIVE SumOver(_, _, _)
SumOver(S, doc1, doc2) ==
    IF S = {} THEN 0
    ELSE LET t == CHOOSE x \in S : TRUE IN
         Tf(doc1, t) * Tf(doc2, t) + SumOver(S \ {t}, doc1, doc2)

\* The squared idf weight of a term, times 50: idf = ln(3 / (1 + df)) + 1
\* over the two documents, so 1 for a shared term and 1.405 for the others.
IdfOfFirst(t, doc1, doc2) == IF t \in Terms(doc1) THEN 50 ELSE 99
IdfSq(t, doc1, doc2) ==
    IF t \in Terms(doc1) /\ t \in Terms(doc2) THEN 50 ELSE 99

RECURSIVE NormSq(_, _, _, _)
NormSq(S, doc, doc1, doc2) ==
    IF S = {} THEN 0
    ELSE LET t == CHOOSE x \in S : TRUE IN
         Tf(doc, t) * Tf(doc, t) * IdfSq(t, doc1, doc2)
           + NormSq(S \ {t}, doc, doc1, doc2)

Isqrt(n) == CHOOSE k \in 0..100 : k * k <= n /\ ((k + 1) * (k + 1) > n \/ k = 100)

\* match_job_to_user and calculate_relevance_score: the cosine of the two
\* tf-idf vectors times 100, rounded down; [raised |-> TRUE] for an exception.
Raised == [raised |-> TRUE, value |-> 0]
Returned(v) == [raised |-> FALSE, value |-> v]
calculate_relevance_score(job_description, user_profile_text) ==
    IF job_description.type # "str" \/ user_profile_text.type # "str"
      THEN Raised                                   \* text.lower()
    ELSE LET doc1 == preprocess_text(job_description.text)
             doc2 == preprocess_text(user_profile_text.text)
             shared == Terms(doc1) \cap Terms(doc2)
             n1 == NormSq(Terms(doc1), doc1, doc1, doc2)
             n2 == NormSq(Terms(doc2), doc2, doc1, doc2)
             dot == SumOver(shared, doc1, doc2)
         IN IF Terms(doc1) \cup Terms(doc2) = {}
              THEN Raised                           \* empty vocabulary
            ELSE IF n1 = 0 \/ n2 = 0
              THEN Returned(0)
            ELSE Returned(Isqrt((10000 * (50 * dot) * (50 * dot)) \div (n1 * n2)))

(***************************************************************************)
(* filter_jobs.py                                                          *)
(***************************************************************************)
MaxBatch == 2        \* jobs one crawl hands to the orchestrator

\* What the crawl puts in a job record.  A page that did not load leaves the
\* keys of get_job_details and get_company_and_location out; a loaded page
\* gives "location" its text, or None when no selector matched (here the
\* pages with an even URL number carry no location element).
RawLocation(job) ==
    IF ~job.loaded THEN "absent"
    ELSE IF job.url % 2 = 1 THEN "remote" ELSE None

\* The lists a crawl can return: the k-th record is the job page with URL
\* number k, loaded or not.
RawBatches ==
    UNION { { [k \in 1..n |-> JobRecord(k, loaded[k], 1)] : loaded \in [1..n -> BOOLEAN] }
            : n \in 0..MaxBatch }

\* filter_jobs.py:19-72 for one job: "keep", "drop" or "raise".
FilterOne(job, criteria) ==
    LET loc == RawLocation(job) IN
    IF criteria.location_preferences # {} /\ loc = None
      THEN "raise"                     \* None.lower()
    ELSE IF criteria.location_preferences # {}
            /\ loc \notin criteria.location_preferences
      THEN "drop"
    ELSE IF criteria.job_duration # ""
      THEN "drop"                      \* the crawl sets no job_duration
    ELSE IF criteria.technologies_keywords # {}
            \/ criteria.preferred_languages # {}
      THEN IF job.loaded THEN "raise"  \* str + list
                         ELSE "drop"
    ELSE "keep"

\* filter_jobs: the filtered list, or the exception of the first job that
\* raises together with the number of jobs after it.
KeepAllReversed(job_data, criteria) ==
    [raised |-> FALSE, left |-> 0,
     list |-> [k \in 1..Len(job_data) |-> job_data[Len(job_data) + 1 - k]]]
RECURSIVE filter_jobs(_, _)
filter_jobs(job_data, criteria) ==
    IF job_data = << >> THEN [raised |-> FALSE, list |-> << >>, left |-> 0]
    ELSE LET one == FilterOne(Head(job_data), criteria)
             rest == filter_jobs(Tail(job_data), criteria)
         IN CASE one = "raise" ->
                   [raised |-> TRUE, list |-> << >>, left |-> Len(job_data) - 1]
              [] rest.raised -> rest
              [] one = "keep" ->
                   [rest EXCEPT !.list = <<Head(job_data)>> \o rest.list]
              [] OTHER -> rest

(***************************************************************************)
(* One invocation of run_daily_scraping or of send_follow_up_emails.       *)
(***************************************************************************)
RunIds == {1, 2}
\* relevance_threshold: the default of line 33 and the value of line 237
Thresholds == {50, 60}

NoResult == [status |-> "none"]
Idle ==
    [pc |-> "idle", entry |-> "none", user_id |-> 0, relevance_threshold |-> 0,
     days |-> 0, queue |-> << >>, profile |-> "none", letter |-> "none",
     tried |-> {}, applied |-> {},
     jobs_scraped |-> 0, jobs_filtered |-> 0, relevant_jobs_found |-> 0,
     jobs_scored_count |-> 0, applications_generated_count |-> 0,
     followed_up_application_ids |-> << >>, result |-> NoResult]

AllIdle == \A r \in RunIds : runs[r].pc = "idle"

\* The invocation ends with a value or with an exception.
Finish(r, result) ==
    runs' = [runs EXCEPT ![r] =
               [Idle EXCEPT !.pc = "done", !.entry = runs[r].entry,
                            !.user_id = runs[r].user_id,
                            !.days = runs[r].days,
                            !.result = result]]
Raise(r, stage, left) ==
    runs' = [runs EXCEPT ![r] =
               [Idle EXCEPT !.pc = "raised", !.entry = runs[r].entry,
                            !.user_id = runs[r].user_id,
                            !.result = [status |-> "raised", stage |-> stage,
                                        unprocessed |-> left]]]

\* The caller drops the returned value.  The record of the mails sent is
\* kept while an invocation is in flight.
NoMail == [once |-> {}, twice |-> {}]
Forget(r) ==
    /\ runs[r].pc \in {"done", "raised"}
    /\ runs' = [runs EXCEPT ![r] = Idle]
    /\ mailed' = IF \A q \in RunIds \ {r} : runs[q].pc = "idle" THEN NoMail ELSE mailed
    /\ UNCHANGED <<jobs, applications, today, last_save>>
    /\ UNCHANGED crawlVars
    /\ UNCHANGED pureVars

\* A direct call of save_job_data, as at database.py:326 and :338.
SaveJobDataCall(inputs) ==
    /\ AllIdle
    /\ \E job_data \in inputs, answer \in WriteAnswers :
          /\ jobs' = save_job_data(jobs, job_data, answer)
          /\ last_save' = [tick |-> ~last_save.tick,
                           job_data |-> job_data,
                           stored |-> LinkTaken(jobs, job_data.application_link),
                           answer |-> answer, raised |-> FALSE]
    /\ UNCHANGED <<applications, today, runs, mailed>>
    /\ UNCHANGED crawlVars
    /\ UNCHANGED pureVars

\* ... with any description,
EnvSaveJobData ==
    SaveJobDataCall({JobRow(l, d, Null) : l \in Links, d \in Descriptions})
\* The same call between two invocations of the orchestrator, with the
\* description of the posting behind the link.
SavePosting ==
    /\ \E l \in Links, answer \in WriteAnswers :
          jobs' = save_job_data(jobs, JobRow(l, DescOf(l), Null), answer)
    /\ UNCHANGED <<applications, today, runs, last_save, mailed>>
    /\ UNCHANGED crawlVars
    /\ UNCHANGED pureVars

\* The pipeline's updates of a stored row (orchestrator.py:100 and :134),
\* seen from the table.
EnvSavePosting ==
    /\ AllIdle
    /\ SavePosting

EnvUpdateJob ==
    /\ AllIdle
    /\ \E job_id \in 1..Len(jobs), answer \in WriteAnswers :
          \/ \E score \in {57, 100} :
                jobs' = update_job_relevance_score(jobs, job_id, score, answer)
          \/ jobs' = update_job_status(jobs, job_id, "applied", answer)
    /\ UNCHANGED <<applications, today, runs, last_save, mailed>>
    /\ UNCHANGED crawlVars
    /\ UNCHANGED pureVars

\* A direct call of save_application_details, as at database.py:348 (status
\* 'sent') and orchestrator.py:127 (status 'generated').
EnvSaveApplication ==
    /\ AllIdle
    /\ \E job_id \in 1..Len(jobs), user_id \in UserRows,
          status \in {"sent", "generated"}, answer \in WriteAnswers :
          applications' =
              save_application_details(applications, job_id, user_id, status, answer).tbl
    /\ UNCHANGED <<jobs, today, runs, last_save, mailed>>
    /\ UNCHANGED crawlVars
    /\ UNCHANGED pureVars

\* A direct call of log_application_status for an application that was sent.
EnvLogSent ==
    /\ AllIdle
    /\ \E id \in 1..Len(applications), answer \in WriteAnswers :
          /\ applications[id].status = "generated"
          /\ applications' = log_application_status(applications, id, "sent", answer)
    /\ UNCHANGED <<jobs, today, runs, last_save, mailed>>
    /\ UNCHANGED crawlVars
    /\ UNCHANGED pureVars

\* Days pass between invocations.
DefaultDays == 7
Tick ==
    /\ AllIdle
    /\ today + DefaultDays + 1 <= MaxDay
    /\ today' = today + DefaultDays + 1
    /\ UNCHANGED <<jobs, applications, runs, last_save, mailed>>
    /\ UNCHANGED crawlVars
    /\ UNCHANGED pureVars

(***************************************************************************)
(* send_follow_up_emails (follow_up_manager.py)                            *)
(***************************************************************************)
DaysArgs == {DefaultDays, DefaultDays + 1}

\* line 22: date_threshold = today - timedelta(days=days_since_application)
date_threshold(days) == today - days

\* line 25: .eq('status', 'sent').lt('application_date', date_threshold)
SelectAtOrBefore(app, threshold) ==
    app.status = "sent" /\ app.application_date <= threshold
SelectAnyStatus(app, threshold) ==
    app.application_date < threshold
FollowUpSelected(app, threshold) ==
    app.status = "sent" /\ app.application_date < threshold

\* The ids of the selected rows, in table order.
RECURSIVE FollowUpIds(_, _, _)
FollowUpIds(tbl, threshold, k) ==
    IF k > Len(tbl) THEN << >>
    ELSE IF FollowUpSelected(tbl[k], threshold)
           THEN <<k>> \o FollowUpIds(tbl, threshold, k + 1)
           ELSE FollowUpIds(tbl, threshold, k + 1)

\* line 81: "if email_sent_successfully:" guards the status write.
WriteAlways(email_sent_successfully) == TRUE
StatusWriteDue(email_sent_successfully) == email_sent_successfully

\* line 84: .update({'status': 'followed_up'}).eq('id', application_id)
LeaveSent(tbl, id) == tbl
mark_followed_up(tbl, id) == [tbl EXCEPT ![id].status = "followed_up"]

\* History of send_application_email returning True for application id.
Mail(id) ==
    [once  |-> mailed.once \cup {id},
     twice |-> IF id \in mailed.once THEN mailed.twice \cup {id} ELSE mailed.twice]

\* send_follow_up_emails returns: a direct call hands back the list, a call
\* from run_daily_scraping (line 147) goes on to the report.
FollowUpReturn(r, ids) ==
    IF runs[r].entry = "followup"
      THEN Finish(r, [status |-> "returned", sent |-> ids])
      ELSE runs' = [runs EXCEPT ![r].pc = "report", ![r].queue = << >>,
                                ![r].followed_up_application_ids = ids]

\* The rest of the loop after the current application.
FollowUpContinue(r, ids) ==
    IF Len(runs[r].queue) > 1
      THEN runs' = [runs EXCEPT ![r].queue = Tail(runs[r].queue),
                                ![r].followed_up_application_ids = ids]
      ELSE FollowUpReturn(r, ids)

\* A direct call send_follow_up_emails(client, days), as at line 105.
FollowUpBegin(r) ==
    /\ runs[r].pc = "idle"
    /\ \E days \in DaysArgs :
          runs' = [runs EXCEPT ![r] =
                     [Idle EXCEPT !.pc = "fu_select", !.entry = "followup",
                                  !.days = days]]
    /\ UNCHANGED <<jobs, applications, today, last_save, mailed>>
    /\ UNCHANGED crawlVars
    /\ UNCHANGED pureVars

\* lines 19-32: compute the threshold and fetch the applications.  The
\* awaited select is outside any try block.
\* Calls one after the other: a new one starts when none is running.
FollowUpStart(r) ==
    /\ AllIdle
    /\ FollowUpBegin(r)

FollowUpSelect(r) ==
    /\ runs[r].pc = "fu_select"
    /\ \E answer \in {"data", "exception"} :
         LET ids == FollowUpIds(applications, date_threshold(runs[r].days), 1) IN
         IF answer = "exception" THEN Raise(r, "fu_select", 0)
         ELSE IF ids = << >> THEN FollowUpReturn(r, << >>)
         ELSE runs' = [runs EXCEPT ![r].pc = "followup", ![r].queue = ids]
    /\ UNCHANGED <<jobs, applications, today, last_save, mailed>>
    /\ UNCHANGED crawlVars
    /\ UNCHANGED pureVars

\* lines 34-91: one iteration of "for app in applications_to_follow_up":
\* fetch the job row and the user's email, send, update the status.
FollowUpOne(r) ==
    /\ runs[r].pc = "followup"
    /\ LET id == Head(runs[r].queue)
           ids == runs[r].followed_up_application_ids
           left == Len(runs[r].queue) - 1
       IN
       \E lookup \in {"data", "nodata", "exception"},
          email_sent_successfully \in BOOLEAN,
          answer \in WriteAnswers :
          CASE lookup = "exception" ->
                 /\ ~email_sent_successfully /\ answer = "data"
                 /\ Raise(r, "followup", left)
                 /\ UNCHANGED <<applications, mailed>>
            [] lookup = "nodata" ->
                 /\ ~email_sent_successfully /\ answer = "data"
                 /\ FollowUpContinue(r, ids)
                 /\ UNCHANGED <<applications, mailed>>
            [] lookup = "data" /\ ~StatusWriteDue(email_sent_successfully) ->
                 /\ answer = "data"
                 /\ FollowUpContinue(r, ids)
                 /\ UNCHANGED <<applications, mailed>>
            [] OTHER ->
                 /\ mailed' = IF email_sent_successfully THEN Mail(id) ELSE mailed
                 /\ CASE answer = "data" ->
                           /\ applications' = mark_followed_up(applications, id)
                           /\ FollowUpContinue(r, Append(ids, id))
                      [] answer = "error" ->
                           /\ UNCHANGED applications
                           /\ FollowUpContinue(r, ids)
                      [] OTHER ->
                           /\ UNCHANGED applications
                           /\ Raise(r, "followup", left)
    /\ UNCHANGED <<jobs, today, last_save>>
    /\ UNCHANGED crawlVars
    /\ UNCHANGED pureVars

(***************************************************************************)
(* run_daily_scraping and score_unscored_jobs (orchestrator.py)            *)
(***************************************************************************)
\* line 112: application_threshold = relevance_threshold + 10
ThresholdWithoutOffset(relevance_threshold) == relevance_threshold
application_threshold(relevance_threshold) == relevance_threshold + 10

\* database.py:130: relevance_score IS NULL or relevance_score = 0
AnyScore(job) == TRUE
Unscored(job) == job.relevance_score = Null \/ job.relevance_score = 0

\* database.py:148: .gte('relevance_score', threshold).eq('status', 'pending')
ScoreOnly(job, threshold) ==
    job.relevance_score # Null /\ job.relevance_score >= threshold
ForApplication(job, threshold) ==
    /\ job.relevance_score # Null
    /\ job.relevance_score >= threshold
    /\ job.status = "pending"

\* The ids of the rows of jobs a select returns, in table order.
RECURSIVE UnscoredIds(_, _)
UnscoredIds(tbl, k) ==
    IF k > Len(tbl) THEN << >>
    ELSE (IF Unscored(tbl[k]) THEN <<k>> ELSE << >>) \o UnscoredIds(tbl, k + 1)
RECURSIVE ForApplicationIds(_, _, _)
ForApplicationIds(tbl, threshold, k) ==
    IF k > Len(tbl) THEN << >>
    ELSE (IF ForApplication(tbl[k], threshold) THEN <<k>> ELSE << >>)
           \o ForApplicationIds(tbl, threshold, k + 1)

\* lines 176-188: the returned summary.
Summary(run, report_sent) ==
    [status |-> "success", user_id |-> run.user_id,
     jobs_scraped |-> run.jobs_scraped,
     jobs_filtered |-> run.jobs_filtered,
     relevant_jobs_found |-> run.relevant_jobs_found,
     jobs_scored_in_batch |-> run.jobs_scored_count,
     relevance_threshold |-> run.relevance_threshold,
     applications_generated |-> run.applications_generated_count,
     follow_up_emails_sent |-> Len(run.followed_up_application_ids),
     daily_report_sent |-> report_sent]

\* line 52: the value returned when the profile cannot be fetched.
ProfileNotFound == [status |-> "failed", message |-> "User profile not found."]

\* lines 37-79: the client, the crawl, the profile and the filter.
RunBegin(r) ==
    /\ runs[r].pc = "idle"
    /\ \E user_id \in UserIds, relevance_threshold \in Thresholds,
          raw_jobs \in RawBatches,
          start \in {"ok", "no_client", "crawl_raises", "profile_error"} :
         LET me == [Idle EXCEPT !.entry = "run", !.user_id = user_id,
                                !.relevance_threshold = relevance_threshold,
                                !.days = DefaultDays,
                                !.jobs_scraped = Len(raw_jobs)]
             filtered == filter_jobs(raw_jobs, preferred_criteria(user_id))
         IN
         CASE start = "no_client" ->          \* get_supabase_client raises
                /\ raw_jobs = << >>
                /\ runs' = [runs EXCEPT ![r] =
                      [me EXCEPT !.pc = "raised", !.jobs_scraped = 0,
                                 !.relevance_threshold = 0, !.days = 0,
                                 !.result = [status |-> "raised", stage |-> "config",
                                             unprocessed |-> 0]]]
           [] start = "crawl_raises" ->       \* scraper.py:255-257
                /\ raw_jobs = << >>
                /\ runs' = [runs EXCEPT ![r] =
                      [me EXCEPT !.pc = "raised", !.jobs_scraped = 0,
                                 !.relevance_threshold = 0, !.days = 0,
                                 !.result = [status |-> "raised", stage |-> "crawl",
                                             unprocessed |-> 0]]]
           [] start = "profile_error" \/ user_id \notin UserRows ->
                runs' = [runs EXCEPT ![r] =
                      [Idle EXCEPT !.pc = "done", !.entry = "run",
                                   !.user_id = user_id,
                                   !.result = ProfileNotFound]]
           [] filtered.raised ->
                runs' = [runs EXCEPT ![r] =
                      [Idle EXCEPT !.pc = "raised", !.entry = "run",
                                   !.user_id = user_id,
                                   !.result = [status |-> "raised", stage |-> "filter",
                                               unprocessed |-> filtered.left]]]
           [] OTHER ->
                runs' = [runs EXCEPT ![r] =
                      [me EXCEPT !.pc = IF filtered.list = << >>
                                          THEN "unscored" ELSE "score_save",
                                 !.queue = filtered.list,
                                 !.jobs_filtered = Len(filtered.list)]]
    /\ UNCHANGED <<jobs, applications, today, last_save, mailed>>
    /\ UNCHANGED crawlVars
    /\ UNCHANGED pureVars

\* lines 83-105: one iteration of "for job in filtered_jobs".  Line 87 hands
\* the job dict, not its description, to calculate_relevance_score.
\* Invocations one after the other: a new one starts when none is running.
RunStart(r) ==
    /\ AllIdle
    /\ RunBegin(r)

RunScoreSave(r) ==
    /\ runs[r].pc = "score_save"
    /\ LET job == Head(runs[r].queue)
           score == calculate_relevance_score(PyDict,
                                              PyStr(profile_text(runs[r].user_id)))
           left == Len(runs[r].queue) - 1
       IN
       \E answer \in WriteAnswers :
          IF score.raised
            THEN /\ answer = "data"
                 /\ Raise(r, "score_save", left)
                 /\ UNCHANGED jobs
            ELSE \* save_job_data returns nothing, so the job counts as not saved
                 /\ jobs' = save_job_data(jobs,
                               JobRow(job.url, DescOf(job.url), score.value), answer)
                 /\ runs' = [runs EXCEPT
                       ![r].queue = Tail(runs[r].queue),
                       ![r].pc = IF left = 0 THEN "unscored" ELSE "score_save"]
    /\ UNCHANGED <<applications, today, last_save, mailed>>
    /\ UNCHANGED crawlVars
    /\ UNCHANGED pureVars

\* lines 198 and 203: "if not user_profile" and "if not profile_text".
\* What get_user_profile gave: "data" a row with a profile text, "empty" a
\* row whose profile_text is empty or NULL, "error" no row or a failed read.
ProfileAnswers == {"data", "empty", "error"}
AnyProfile(profile) == TRUE
ProfileUsable(profile) == profile = "data"

\* lines 196-210: score_unscored_jobs fetches the profile and the unscored
\* jobs.  get_unscored_jobs returns the rows, [] after an error or an
\* exception, and nothing at all when no row matches and no error is set;
\* len() of that raises.
RunUnscored(r) ==
    /\ runs[r].pc = "unscored"
    /\ \E profile \in ProfileAnswers, answer \in {"data", "error", "exception"},
          falls_through \in BOOLEAN :
         LET ids == UnscoredIds(jobs, 1) IN
         CASE ~ProfileUsable(profile) ->
                /\ answer = "data" /\ falls_through
                /\ runs' = [runs EXCEPT ![r].pc = "select", ![r].profile = profile]
           [] answer # "data" ->
                /\ falls_through
                /\ runs' = [runs EXCEPT ![r].pc = "select", ![r].profile = profile]
           [] ids = << >> /\ falls_through ->
                Raise(r, "unscored", 0)
           [] ids = << >> ->
                runs' = [runs EXCEPT ![r].pc = "select", ![r].profile = profile]
           [] OTHER ->
                /\ falls_through
                /\ runs' = [runs EXCEPT ![r].pc = "score_loop", ![r].queue = ids,
                                        ![r].profile = profile]
    /\ UNCHANGED <<jobs, applications, today, last_save, mailed>>
    /\ UNCHANGED crawlVars
    /\ UNCHANGED pureVars

\* lines 214-225: one iteration of "for job in unscored_jobs".
RunScoreOne(r) ==
    /\ runs[r].pc = "score_loop"
    /\ LET job_id == Head(runs[r].queue)
           job_description == jobs[job_id].description
           score == calculate_relevance_score(PyStr(job_description),
                                              PyStr(profile_text(runs[r].user_id)))
           left == Len(runs[r].queue) - 1
           next == IF left = 0 THEN "select" ELSE "score_loop"
       IN
       \E answer \in WriteAnswers :
          CASE job_description = EmptyText ->
                 /\ answer = "data"
                 /\ UNCHANGED jobs
                 /\ runs' = [runs EXCEPT ![r].queue = Tail(runs[r].queue),
                                         ![r].pc = next]
            [] score.raised ->
                 /\ answer = "data"
                 /\ UNCHANGED jobs
                 /\ Raise(r, "score_loop", left)
            [] OTHER ->
                 /\ jobs' = update_job_relevance_score(jobs, job_id, score.value, answer)
                 /\ runs' = [runs EXCEPT
                       ![r].queue = Tail(runs[r].queue),
                       ![r].pc = next,
                       ![r].jobs_scored_count = runs[r].jobs_scored_count + 1]
    /\ UNCHANGED <<applications, today, last_save, mailed>>
    /\ UNCHANGED crawlVars
    /\ UNCHANGED pureVars

\* lines 112-117: fetch the jobs to apply to.
RunSelect(r) ==
    /\ runs[r].pc = "select"
    /\ \E answer \in {"data", "error"} :
         LET threshold == application_threshold(runs[r].relevance_threshold)
             ids == IF answer = "data"
                      THEN ForApplicationIds(jobs, threshold, 1) ELSE << >>
         IN runs' = [runs EXCEPT
                ![r].pc = IF ids = << >> THEN "fu_select" ELSE "apply",
                ![r].profile = "none",    \* local to score_unscored_jobs
                ![r].queue = ids]
    /\ UNCHANGED <<jobs, applications, today, last_save, mailed>>
    /\ UNCHANGED crawlVars
    /\ UNCHANGED pureVars

\* line 125: if cover_letter and "Failed to generate cover letter" not in
\* cover_letter
AnyLetter(cover_letter) == TRUE
LetterUsable(cover_letter) == cover_letter = "letter"

\* lines 118-141: one iteration of "for job in jobs_to_apply".
RunApplyOne(r) ==
    /\ runs[r].pc = "apply"
    /\ LET job_id == Head(runs[r].queue)
           left == Len(runs[r].queue) - 1
           next == IF left = 0 THEN "fu_select" ELSE "apply"
       IN
       \E cover_letter \in {"letter", "failed", "no_api_key"},
          saved \in WriteAnswers, updated \in WriteAnswers :
         LET sa == save_application_details(applications, job_id,
                                            runs[r].user_id, "generated", saved)
         IN
         CASE cover_letter = "no_api_key" ->     \* application_generator.py:27
                /\ saved = "data" /\ updated = "data"
                /\ UNCHANGED <<jobs, applications>>
                /\ Raise(r, "apply", left)
           [] ~LetterUsable(cover_letter) ->
                /\ saved = "data" /\ updated = "data"
                /\ UNCHANGED <<jobs, applications>>
                /\ runs' = [runs EXCEPT ![r].queue = Tail(runs[r].queue),
                                        ![r].pc = next,
                                        ![r].letter = cover_letter]
           [] sa.id = 0 ->
                /\ updated = "data"
                /\ UNCHANGED <<jobs, applications>>
                /\ runs' = [runs EXCEPT ![r].queue = Tail(runs[r].queue),
                                        ![r].pc = next,
                                        ![r].letter = cover_letter,
                                        ![r].tried = runs[r].tried \cup {job_id}]
           [] OTHER ->
                /\ applications' = sa.tbl
                /\ jobs' = update_job_status(jobs, job_id, "applied", updated)
                /\ runs' = [runs EXCEPT
                      ![r].queue = Tail(runs[r].queue),
                      ![r].pc = next,
                      ![r].letter = cover_letter,
                      ![r].tried = runs[r].tried \cup {job_id},
                      ![r].applied = runs[r].applied \cup {job_id},
                      ![r].applications_generated_count =
                          runs[r].applications_generated_count + 1]
    /\ UNCHANGED <<today, last_save, mailed>>
    /\ UNCHANGED crawlVars
    /\ UNCHANGED pureVars

\* lines 153-188: the report and the summary.
RunReport(r) ==
    /\ runs[r].pc = "report"
    /\ \E report_sent \in BOOLEAN : Finish(r, Summary(runs[r], report_sent))
    /\ UNCHANGED <<jobs, applications, today, last_save, mailed>>
    /\ UNCHANGED crawlVars
    /\ UNCHANGED pureVars

(***************************************************************************)
(* Specifications                                                          *)
(***************************************************************************)
InitStore ==
    /\ applications = << >>
    /\ today = 0
    /\ runs = [r \in RunIds |-> Idle]
    /\ last_save = [tick |-> FALSE, job_data |-> JobRow(0, EmptyText, Null),
                    stored |-> FALSE, answer |-> None, raised |-> FALSE]
    /\ mailed = NoMail
InitRest ==
    /\ InitStore
    /\ call = NoCall

\* calculate_relevance_score alone: one call on a pair of texts, together
\* with the call on the pair swapped and a second call on the same pair.
MaxWords == 2        \* words in a text
Words == {"Python", "Django", "The", "42", "r"}
Texts == UNION { [1..n -> Words] : n \in 0..MaxWords }
NotYet == [raised |-> FALSE, value |-> Null]
InitScore ==
    /\ InitCrawl /\ max_pages = 0
    /\ InitStore
    /\ jobs = << >>
    /\ \E a \in Texts, b \in Texts :
          call = [fn |-> "calculate_relevance_score", a |-> a, b |-> b,
                  done |-> FALSE, out |-> NotYet, swapped |-> NotYet,
                  again |-> NotYet]
ScoreCall ==
    /\ ~call.done
    /\ call' = [call EXCEPT
          !.done = TRUE,
          !.out = calculate_relevance_score(PyStr(call.a), PyStr(call.b)),
          !.swapped = calculate_relevance_score(PyStr(call.b), PyStr(call.a)),
          !.again = calculate_relevance_score(PyStr(call.a), PyStr(call.b))]
    /\ UNCHANGED <<crawlVars, dbVars, runVars>>
NextScore ==
    \/ ScoreCall
SpecScore == InitScore /\ [][NextScore]_vars

(***************************************************************************)
(* The field extractors (scraper.py:4-240) and the record built from them  *)
(* (scraper.py:289-304).  A page answers every selector strategy with no   *)
(* match, a match whose text (or href) is empty, a match with a value, or  *)
(* an exception of the browser.                                            *)
(***************************************************************************)
MaxStrategies == 2   \* strategies in a selector list (the lists have up to 11)
Absent   == [kind |-> "None",    from |-> 0]     \* Python None
Blank    == [kind |-> "empty",   from |-> 0]     \* ""
Missing  == [kind |-> "missing", from |-> 0]     \* the key is not in the dict
Threw    == [kind |-> "raise",   from |-> 0]     \* an exception inside try
Val(k)   == [kind |-> "value",   from |-> k]     \* the value of strategy k
Joined(k) == [kind |-> "joined", from |-> k]     \* page.url + href of strategy k
Extractors == {"get_job_title", "get_job_details", "get_publication_date",
               "get_company_and_location", "get_application_link"}
StrategyAnswers(fn) ==
    {"nomatch", "empty", "text", "raises"}
      \cup (IF fn = "get_publication_date" THEN {"badtext"} ELSE {})
      \cup (IF fn = "get_application_link" THEN {"relative"} ELSE {})

\* except Exception as e: print(...); return None
Reraise(e) == [raised |-> TRUE, ret |-> "None", a |-> Absent, b |-> Absent]
ExceptReturnsNone(e) ==
    [raised |-> FALSE, ret |-> "None", a |-> Absent, b |-> Absent]
Return(a, b) ==
    [raised |-> FALSE,
     ret |-> IF a = Absent /\ b = Missing THEN "None" ELSE "value",
     a |-> a, b |-> b]

\* scraper.py:18-28: the h1, then div.job-title; the text of the first
\* element found is returned as it is.
TitleChain(ans) ==
    IF ans[1] = "raises" THEN Threw
    ELSE IF ans[1] = "empty" THEN Blank
    ELSE IF ans[1] = "text" THEN Val(1)
    ELSE IF ans[2] = "raises" THEN Threw
    ELSE IF ans[2] = "empty" THEN Blank
    ELSE IF ans[2] = "text" THEN Val(2)
    ELSE Absent
get_job_title(goto, ans) ==
    IF goto = "error" THEN ExceptReturnsNone("goto")
    ELSE IF TitleChain(ans) = Threw THEN ExceptReturnsNone("selector")
    ELSE Return(TitleChain(ans), Missing)

\* scraper.py:53-55: one selector for the description.
get_job_details(goto, ans) ==
    IF goto = "error" THEN ExceptReturnsNone("goto")
    ELSE IF ans[1] = "raises" THEN ExceptReturnsNone("selector")
    ELSE Return(CASE ans[1] = "text" -> Val(1)
                  [] ans[1] = "empty" -> Blank
                  [] OTHER -> Absent, Absent)

\* scraper.py:165-170 and 180-185: the loop assigns the text of every
\* element found and stops at the first text that is not empty.
RECURSIVE KeepLastText(_, _, _)
KeepLastText(ans, k, cur) ==
    IF k > Len(ans) THEN cur
    ELSE CASE ans[k] = "raises"  -> Threw
           [] ans[k] = "nomatch" -> KeepLastText(ans, k + 1, cur)
           [] ans[k] = "empty"   -> KeepLastText(ans, k + 1, Blank)
           [] OTHER              -> Val(k)
get_company_and_location(goto, company_ans, location_ans) ==
    LET company_name == KeepLastText(company_ans, 1, Absent)
        location == KeepLastText(location_ans, 1, Absent)
    IN
    IF goto = "error" THEN ExceptReturnsNone("goto")
    ELSE IF company_name = Threw THEN ExceptReturnsNone("selector")
    ELSE IF location = Threw THEN ExceptReturnsNone("selector")
    ELSE Return(company_name, location)

\* scraper.py:99-126: the same loop over date_selectors, then the text is
\* parsed; a text no format parses, like an empty text, gives None.
RECURSIVE DateText(_, _, _)
DateText(ans, k, cur) ==
    IF k > Len(ans) THEN cur
    ELSE CASE ans[k] = "raises"  -> Threw
           [] ans[k] = "nomatch" -> DateText(ans, k + 1, cur)
           [] ans[k] = "empty"   -> DateText(ans, k + 1, Blank)
           [] ans[k] = "badtext" -> [kind |-> "badtext", from |-> k]
           [] OTHER              -> Val(k)
get_publication_date(goto, ans) ==
    LET date_text == DateText(ans, 1, Absent) IN
    IF goto = "error" THEN ExceptReturnsNone("goto")
    ELSE IF date_text = Threw THEN ExceptReturnsNone("selector")
    ELSE IF date_text.kind = "value" THEN Return(date_text, Missing)
    ELSE Return(Absent, Missing)

\* scraper.py:220-239: apply_selectors, then company_apply_selectors; the
\* first href that is not empty is returned, after page.url if it does not
\* start with "http".
RECURSIVE FirstHref(_, _)
FirstHref(ans, k) ==
    IF k > Len(ans) THEN Absent
    ELSE CASE ans[k] = "raises"   -> Threw
           [] ans[k] = "text"     -> Val(k)
           [] ans[k] = "relative" -> Joined(k)
           [] OTHER               -> FirstHref(ans, k + 1)
get_application_link(goto, ans) ==
    IF goto = "error" THEN ExceptReturnsNone("goto")
    ELSE IF FirstHref(ans, 1) = Threw THEN ExceptReturnsNone("selector")
    ELSE Return(FirstHref(ans, 1), Missing)

\* What an extractor not under study gave back: None, or its value(s).
OtherResult(fn, r) ==
    CASE r = "None" -> ExceptReturnsNone("other")
      [] fn = "get_company_and_location" -> Return(Val(1), Val(1))
      [] fn = "get_job_details" -> Return(Val(1), Absent)
      [] OTHER -> Return(Val(1), Missing)
Extract(c, fn) ==
    IF fn # c.fn THEN OtherResult(fn, c.others[fn])
    ELSE CASE fn = "get_job_title" -> get_job_title(c.goto, c.ans)
           [] fn = "get_job_details" -> get_job_details(c.goto, c.ans)
           [] fn = "get_publication_date" -> get_publication_date(c.goto, c.ans)
           [] fn = "get_company_and_location" ->
                get_company_and_location(c.goto, c.ans, c.ans2)
           [] OTHER -> get_application_link(c.goto, c.ans)

\* scraper.py:291-304: job_data, or "raised" when an extractor raised.
job_data_of(c) ==
    LET title == Extract(c, "get_job_title")
        details == Extract(c, "get_job_details")
        date == Extract(c, "get_publication_date")
        company_location == Extract(c, "get_company_and_location")
        link == Extract(c, "get_application_link")
    IN
    [raised |-> \E fn \in Extractors : Extract(c, fn).raised,
     title |-> title.a,
     description |-> IF details.ret = "None" THEN Missing ELSE details.a,
     publication_date |-> date.a,
     company_name |-> IF company_location.ret = "None"
                        THEN Missing ELSE company_location.a,
     location |-> IF company_location.ret = "None"
                    THEN Missing ELSE company_location.b,
     application_link |-> link.a]
NoJobData ==
    [raised |-> FALSE, title |-> Missing, description |-> Missing,
     publication_date |-> Missing, company_name |-> Missing,
     location |-> Missing, application_link |-> Missing]

ChainLength(fn) ==
    CASE fn = "get_job_title" -> {2}
      [] fn = "get_job_details" -> {1}
      [] OTHER -> 1..MaxStrategies
InitExtract ==
    /\ InitCrawl /\ max_pages = 0
    /\ InitStore
    /\ jobs = << >>
    /\ \E fn \in Extractors, goto \in {"ok", "error"} :
       \E n \in ChainLength(fn),
          n2 \in (IF fn = "get_company_and_location" THEN 1..MaxStrategies ELSE {0}) :
       \E ans \in [1..n -> StrategyAnswers(fn)],
          ans2 \in [1..n2 -> StrategyAnswers(fn)],
          others \in [Extractors -> {"None", "value"}] :
          call = [fn |-> fn, goto |-> goto, ans |-> ans, ans2 |-> ans2,
                  others |-> [others EXCEPT ![fn] = "None"],
                  done |-> FALSE, out |-> ExceptReturnsNone("none"),
                  job_data |-> NoJobData, appended |-> FALSE]
\* One iteration of "for job_url in job_urls" seen from the extractor fn.
ExtractCall ==
    /\ ~call.done
    /\ call' = [call EXCEPT
          !.done = TRUE,
          !.out = Extract(call, call.fn),
          !.job_data = job_data_of(call),
          !.appended = ~job_data_of(call).raised]
    /\ UNCHANGED <<crawlVars, dbVars, runVars>>
NextExtract ==
    \/ ExtractCall
SpecExtract == InitExtract /\ [][NextExtract]_vars

(***************************************************************************)
(* Link extraction (scraper.py:276-282 and 220-237): what is made of an    *)
(* href.  A URL or an href is the sequence of its pieces, "/" being a      *)
(* piece of its own, so "https://example/jobs/1" is                        *)
(* <<"https:", "/", "/", "example", "/", "jobs", "/", "1">>.               *)
(***************************************************************************)
Slash == "/"
Origins ==
    { <<scheme, Slash, Slash, host>> :
         scheme \in {"http:", "https:"}, host \in {"example", "jobs.example"} }
UrlPaths == { << >>, <<Slash>>, <<Slash, "search">>, <<Slash, "jobs", Slash, "1">> }
PageUrls == { origin \o path : origin \in Origins, path \in UrlPaths }
Hrefs ==
    { <<"https:", Slash, Slash, "other", Slash, "apply">>,
      <<Slash, "apply">>, <<Slash, "jobs", Slash, "2">>, <<"apply">> }

\* str.split('/'): the list of the parts between the slashes.
RECURSIVE Split(_, _)
Split(s, part) ==
    IF s = << >> THEN <<part>>
    ELSE IF Head(s) = Slash THEN <<part>> \o Split(Tail(s), << >>)
    ELSE Split(Tail(s), Append(part, Head(s)))

\* href.startswith("http")
StartsWithHttp(href) == href # << >> /\ Head(href) \in {"http:", "https:"}

\* lines 280-281: page.url.split('/')[0] + '//' + page.url.split('/')[2] + href
job_link_href(page_url, href) ==
    IF ~StartsWithHttp(href)
      THEN Split(page_url, << >>)[1] \o <<Slash, Slash>>
             \o Split(page_url, << >>)[3] \o href
      ELSE href

\* lines 225 and 237: href if href.startswith("http") else page.url + href
application_link_href(page_url, href) ==
    IF StartsWithHttp(href) THEN href ELSE page_url \o href

\* One href found in the document at page_url, as a job link of a results
\* page and as the application link of a job page.
InitLink ==
    /\ InitCrawl /\ max_pages = 0
    /\ InitStore
    /\ jobs = << >>
    /\ \E page_url \in PageUrls, href \in Hrefs :
          call = [fn |-> "href", page_url |-> page_url, href |-> href,
                  done |-> FALSE, job_link |-> << >>, application_link |-> << >>]
LinkCall ==
    /\ ~call.done
    /\ call' = [call EXCEPT
          !.done = TRUE,
          !.job_link = job_link_href(call.page_url, call.href),
          !.application_link = application_link_href(call.page_url, call.href)]
    /\ UNCHANGED <<crawlVars, dbVars, runVars>>
NextLink ==
    \/ LinkCall
SpecLink == InitLink /\ [][NextLink]_vars

\* The crawl alone.
InitSpecCrawl == InitCrawl /\ InitRest /\ jobs = << >>
SpecCrawl == InitSpecCrawl /\ [][NextCrawl]_vars

\* The follow-up scheduler alone, over a jobs table holding one posting.
InitFollowUp ==
    /\ InitCrawl /\ max_pages = 0
    /\ InitRest
    /\ jobs = <<JobRow(1, DescOf(1), Null)>>
NextFollowUp ==
    \/ EnvSaveApplication
    \/ Tick
    \/ FollowUpStart(1)
    \/ FollowUpSelect(1)
    \/ FollowUpOne(1)
    \/ Forget(1)
SpecFollowUp == InitFollowUp /\ [][NextFollowUp]_vars

\* Two calls of send_follow_up_emails at once over the same table.
NextFollowUpConcurrent ==
    \/ EnvSaveApplication
    \/ Tick
    \/ FollowUpBegin(1)
    \/ FollowUpBegin(2)
    \/ FollowUpSelect(1)
    \/ FollowUpSelect(2)
    \/ FollowUpOne(1)
    \/ FollowUpOne(2)
    \/ Forget(1)
    \/ Forget(2)
SpecFollowUpConcurrent == InitFollowUp /\ [][NextFollowUpConcurrent]_vars

\* The same, with calls that keep being made and that keep running once
\* started; what the storage service and the mail transport answer stays
\* free.
SpecFollowUpFair ==
    /\ InitFollowUp /\ [][NextFollowUp]_vars
    /\ WF_vars(FollowUpStart(1))
    /\ WF_vars(FollowUpSelect(1))
    /\ WF_vars(FollowUpOne(1))
    /\ WF_vars(Forget(1))

\* Table jobs alone: postings are saved again and again while the stored
\* rows get their scores and statuses.
InitSave ==
    /\ InitCrawl /\ max_pages = 0
    /\ InitRest
    /\ jobs = << >>
NextSave ==
    \/ EnvSaveJobData
    \/ EnvUpdateJob
SpecSave == InitSave /\ [][NextSave]_vars

\* The pipeline: postings are saved, one invocation of run_daily_scraping
\* runs at a time, applications get sent, days pass.
Init ==
    /\ InitCrawl /\ max_pages = 0
    /\ InitRest
    /\ jobs = << >>
Next ==
    \/ EnvSavePosting
    \/ EnvLogSent
    \/ Tick
    \/ RunStart(1)
    \/ RunScoreSave(1)
    \/ RunUnscored(1)
    \/ RunScoreOne(1)
    \/ RunSelect(1)
    \/ RunApplyOne(1)
    \/ FollowUpSelect(1)
    \/ FollowUpOne(1)
    \/ RunReport(1)
    \/ Forget(1)
Spec == Init /\ [][Next]_vars

\* Runs over a table that holds two postings nobody has scored yet: the
\* first without a description, the second with one that shares a word with
\* the profile of user 1 only, or with both profiles.
UnscoredTables ==
    { <<JobRow(1, EmptyText, Null), JobRow(2, description, Null)>> :
         description \in {<<"Django">>, <<"Python", "Django">>} }
InitUnscored ==
    /\ InitCrawl /\ max_pages = 0
    /\ InitRest
    /\ jobs \in UnscoredTables
NextUnscored ==
    \/ RunStart(1)
    \/ RunScoreSave(1)
    \/ RunUnscored(1)
    \/ RunScoreOne(1)
    \/ RunSelect(1)
    \/ RunApplyOne(1)
    \/ FollowUpSelect(1)
    \/ RunReport(1)
    \/ Forget(1)
SpecUnscored == InitUnscored /\ [][NextUnscored]_vars

\* Two invocations of run_daily_scraping at once, over the same tables, with
\* postings being stored by other writers meanwhile.  No application is
\* mailed here, so the follow-up of either invocation selects nothing.  Each
\* of the two invocations is made once and starts at any moment of the other.
InitConcurrent ==
    /\ InitCrawl /\ max_pages = 0
    /\ InitRest
    /\ jobs = << >>
NextConcurrent ==
    \/ SavePosting
    \/ RunBegin(1)
    \/ RunBegin(2)
    \/ RunScoreSave(1)
    \/ RunScoreSave(2)
    \/ RunUnscored(1)
    \/ RunUnscored(2)
    \/ RunScoreOne(1)
    \/ RunScoreOne(2)
    \/ RunSelect(1)
    \/ RunSelect(2)
    \/ RunApplyOne(1)
    \/ RunApplyOne(2)
    \/ FollowUpSelect(1)
    \/ FollowUpSelect(2)
    \/ RunReport(1)
    \/ RunReport(2)
SpecConcurrent == InitConcurrent /\ [][NextConcurrent]_vars

(***************************************************************************)
(* Properties of the crawl, checked under SpecCrawl.                       *)
(***************************************************************************)

\* C6: a crawl processes at most max_pages result pages, and once the page
\* counter has reached max_pages the crawl is over, whatever the next-page
\* control reported.
C6_AtMostMaxPages ==
    /\ pages_scraped <= max_pages
    /\ page_i <= max_pages
    /\ (page_i = max_pages => c_pc \in {"start", "returned", "raised"})
\* A crawl that found an enabled next-page control on every page, the last
\* one included, and returned after exactly max_pages pages.
C6_Witness ==
    /\ c_pc = "returned" /\ error_page = 0
    /\ max_pages = MaxPagesArg
    /\ page_i = max_pages
    /\ pages_scraped = max_pages

\* C7: no job URL is emitted more than once by one crawl: the records of
\* all_job_data have pairwise different URLs.
C7_NoUrlTwice ==
    \A a, b \in 1..Len(all_job_data) :
        all_job_data[a].url = all_job_data[b].url => a = b

\* C8: after an error on result page k the crawl has stopped by returning,
\* not by raising, and the returned list holds every record appended before
\* the error, in order.
C8_ErrorReturnsCollected ==
    error_page > 0 =>
        /\ c_pc = "returned"
        /\ crawl_result = all_job_data
\* An error on the second result page after a record of the first page.
C8_Witness ==
    /\ error_page = 2
    /\ c_pc = "returned"
    /\ \E k \in 1..Len(crawl_result) : crawl_result[k].page = 1

(***************************************************************************)
(* Properties of send_follow_up_emails, checked under SpecFollowUp.        *)
(***************************************************************************)
\* The applications the select of line 25 hands to the loop.
Selected(run) == {run.queue[k] : k \in 1..Len(run.queue)}
SelectStep == runs[1].pc = "fu_select" /\ runs'[1].pc # "raised"

\* C9: an application is emailed, or set to followed_up, only if its status
\* is "sent" and its age in days is at least days_since_application.
C9_OnlySentAndOldEnough ==
    [][\A id \in 1..Len(applications) :
          (\/ id \in mailed'.once \ mailed.once
           \/ /\ applications'[id].status = "followed_up"
              /\ applications[id].status # "followed_up")
          => /\ applications[id].status = "sent"
             /\ today - applications[id].application_date >= runs[1].days
      ]_vars
\* A finished call that emailed an application of status "sent" and passed
\* over one of the same age whose status is "generated".
C9_Witness ==
    /\ runs[1].pc = "done" /\ runs[1].entry = "followup"
    /\ \E id, other \in 1..Len(applications) :
          /\ id \in mailed.once
          /\ applications[id].status = "followed_up"
          /\ other \notin mailed.once
          /\ applications[other].status = "generated"
          /\ applications[other].application_date = applications[id].application_date

\* C10, as stated: every application of status "sent" dated at or before
\* today minus days_since_application is selected, the one dated exactly
\* today minus days_since_application included.
C10_SelectsAtOrBefore ==
    [][SelectStep =>
          \A id \in 1..Len(applications) :
             (/\ applications[id].status = "sent"
              /\ applications[id].application_date <= today - runs[1].days)
             => id \in Selected(runs'[1])
      ]_vars
\* C10, amended: the applications selected are exactly those of status
\* "sent" whose age in days exceeds days_since_application; one dated
\* exactly today minus days_since_application is not selected.
C10_SelectsStrictlyOlder ==
    [][SelectStep =>
          \A id \in 1..Len(applications) :
             id \in Selected(runs'[1]) <=>
                /\ applications[id].status = "sent"
                /\ today - applications[id].application_date > runs[1].days
      ]_vars
\* A call that returned without a follow-up while an application of status
\* "sent" was exactly days_since_application days old.
C10_Witness ==
    /\ runs[1].pc = "done" /\ runs[1].entry = "followup"
    /\ runs[1].result.status = "returned"
    /\ runs[1].result.sent = << >>
    /\ \E id \in 1..Len(applications) :
          /\ applications[id].status = "sent"
          /\ today - applications[id].application_date = runs[1].days

(***************************************************************************)
(* Properties of save_job_data, checked under SpecSave.                    *)
(***************************************************************************)
RowsWithLink(tbl, link) == {k \in 1..Len(tbl) : tbl[k].application_link = link}

\* C3: a call of save_job_data never raises and leaves at most one row with
\* the record's application link; when a row with that link is already
\* stored, the call leaves exactly that row, with every field as it was, and
\* the rest of the table untouched.
C3_SaveIsIdempotent ==
    [][last_save'.tick # last_save.tick =>
          LET link == last_save'.job_data.application_link IN
          /\ ~last_save'.raised
          /\ Cardinality(RowsWithLink(jobs', link)) <= 1
          /\ RowsWithLink(jobs, link) # {} =>
                /\ jobs' = jobs
                /\ Cardinality(RowsWithLink(jobs', link)) = 1
      ]_vars
\* A save the storage service accepted for a link that was already stored,
\* with a record that differs from the stored row.
C3_Witness ==
    /\ last_save.stored /\ last_save.answer = "data"
    /\ \E k \in RowsWithLink(jobs, last_save.job_data.application_link) :
          /\ jobs[k].description # last_save.job_data.description
          /\ jobs[k].relevance_score # Null

(***************************************************************************)
(* Properties of run_daily_scraping, checked under Spec.                   *)
(***************************************************************************)
RowsOfPair(tbl, job_id, user_id) ==
    {k \in 1..Len(tbl) : tbl[k].job_id = job_id /\ tbl[k].user_id = user_id}

\* C1: table applications holds at most one row for every (job, user) pair,
\* and exactly one for every job an invocation in flight has saved an
\* application for.
C1_OneApplicationPerPair ==
    /\ \A job_id \in 1..Len(jobs), user_id \in UserIds :
          Cardinality(RowsOfPair(applications, job_id, user_id)) <= 1
    /\ \A r \in RunIds : \A job_id \in runs[r].applied :
          Cardinality(RowsOfPair(applications, job_id, runs[r].user_id)) = 1
\* An invocation that went through the application loop for a job its user
\* already had an application for, left by an earlier invocation.
C1_Witness ==
    \E r \in RunIds :
       /\ runs[r].entry = "run" /\ runs[r].pc = "fu_select"
       /\ runs[r].applied = {}
       /\ \E job_id \in runs[r].tried :
             RowsOfPair(applications, job_id, runs[r].user_id) # {}

\* C2: a step of run_daily_scraping adds a row to applications, or sets a
\* job to "applied", only for a job whose stored relevance score is at least
\* relevance_threshold + 10.
NewRows == {k \in 1..Len(applications') : k > Len(applications)}
Gated(r, job_id) ==
    /\ runs[r].pc = "apply"
    /\ jobs[job_id].relevance_score # Null
    /\ jobs[job_id].relevance_score >= runs[r].relevance_threshold + 10
C2_AppliesOnlyAboveThreshold ==
    [][/\ \A k \in NewRows :
             \E r \in RunIds :
                /\ applications'[k].user_id = runs[r].user_id
                /\ Gated(r, applications'[k].job_id)
       /\ \A job_id \in 1..Len(jobs) :
             (jobs'[job_id].status = "applied" /\ jobs[job_id].status # "applied")
             => \E r \in RunIds : Gated(r, job_id)
      ]_vars
\* An invocation past its application loop that left a job without an
\* application although its score reaches relevance_threshold, because the
\* score is below relevance_threshold + 10.
C2_Witness ==
    \E r \in RunIds :
       /\ runs[r].entry = "run" /\ runs[r].pc = "fu_select"
       /\ runs[r].tried = {}
       /\ \E job_id \in 1..Len(jobs) :
             /\ jobs[job_id].status = "pending"
             /\ jobs[job_id].relevance_score >= runs[r].relevance_threshold
             /\ jobs[job_id].relevance_score < runs[r].relevance_threshold + 10
             /\ RowsOfPair(applications, job_id, runs[r].user_id) = {}

\* C4: a failure on one job never ends a per-job loop while jobs of the
\* batch are still waiting: an invocation that raised inside the
\* save-and-score loop, the loop of score_unscored_jobs, the application
\* loop or the follow-up loop had no job left to process.
PerJobLoops == {"score_save", "score_loop", "apply", "followup"}
C4_OtherJobsStillProcessed ==
    \A r \in RunIds :
       (runs[r].pc = "raised" /\ runs[r].result.stage \in PerJobLoops)
       => runs[r].result.unprocessed = 0

\* C5: the value run_daily_scraping returns carries the six counts.
SixCounts ==
    {"jobs_scraped", "jobs_filtered", "relevant_jobs_found",
     "jobs_scored_in_batch", "applications_generated", "follow_up_emails_sent"}
C5_ReturnsSixCounts ==
    \A r \in RunIds :
       (runs[r].pc = "done" /\ runs[r].entry = "run")
       => SixCounts \subseteq DOMAIN runs[r].result

\* The ids a call of send_follow_up_emails has put on its list so far.
ReportedIds(run) ==
    IF run.pc = "done" /\ run.result.status = "returned"
      THEN {run.result.sent[k] : k \in 1..Len(run.result.sent)}
      ELSE {run.followed_up_application_ids[k] :
               k \in 1..Len(run.followed_up_application_ids)}

\* C11: an application whose follow-up was sent and whose status write
\* succeeded has status "followed_up", and no later call selects or emails
\* an application of that status.
C11_FollowedUpOnce ==
    [][/\ \A id \in ReportedIds(runs'[1]) \ ReportedIds(runs[1]) :
             applications'[id].status = "followed_up"
       /\ SelectStep =>
             \A id \in Selected(runs'[1]) :
                applications[id].status # "followed_up"
       /\ \A id \in mailed'.once \ mailed.once :
             applications[id].status # "followed_up"
      ]_vars
\* A later call that returned an empty list although an application that
\* was followed up before is older than its days_since_application.
C11_Witness ==
    /\ runs[1].pc = "done" /\ runs[1].entry = "followup"
    /\ runs[1].result.status = "returned"
    /\ runs[1].result.sent = << >>
    /\ mailed = NoMail
    /\ \E id \in 1..Len(applications) :
          /\ applications[id].status = "followed_up"
          /\ today - applications[id].application_date > runs[1].days

\* The ids table applications can hold over one posting.
AppIds == 1..(MaxLinks * Cardinality(UserRows))

\* C12, as stated: once the dispatch for an application has succeeded, the
\* application eventually has status "followed_up".
C12_DispatchLeadsToFollowedUp ==
    \A id \in AppIds :
       (id \in mailed.once) ~>
          (id <= Len(applications) /\ applications[id].status = "followed_up")
\* C12, amended: an iteration of the follow-up loop whose dispatch did not
\* succeed leaves table applications as it was, so that a "sent"
\* application stays "sent" and is selected again by the next call; the
\* application gets status "followed_up" exactly in an iteration whose
\* dispatch succeeded and whose status write succeeded.
C12_FailedDispatchLeavesSent ==
    [][/\ runs[1].pc = "followup" =>
             LET id == Head(runs[1].queue) IN
             /\ id \notin mailed'.once =>
                   /\ applications' = applications
                   /\ id \notin ReportedIds(runs'[1])
             /\ applications'[id].status = "followed_up" <=>
                   (id \in mailed'.once /\ id \in ReportedIds(runs'[1]))
             /\ \A other \in 1..Len(applications) :
                   other # id => applications'[other] = applications[other]
       /\ SelectStep =>
             \A id \in 1..Len(applications) :
                (/\ applications[id].status = "sent"
                 /\ today - applications[id].application_date > runs[1].days)
                => id \in Selected(runs'[1])
      ]_vars
\* A call that returned without having emailed an application that was
\* selected: the application still has status "sent" and is old enough for
\* the next call.
C12_Witness ==
    /\ runs[1].pc = "done" /\ runs[1].entry = "followup"
    /\ runs[1].result.status = "returned"
    /\ \E id \in 1..Len(applications) :
          /\ applications[id].status = "sent"
          /\ today - applications[id].application_date > runs[1].days
          /\ id \notin mailed.once

\* C13: an iteration of the application loop whose cover letter failed adds
\* no application and leaves table jobs as it was, so the job is still one
\* the next select for application returns; that select returns every
\* pending job at or above the application threshold, and an iteration that
\* counts an application has stored it.
C13_FailedLetterRetried ==
    [][\A r \in RunIds :
          /\ (runs[r].pc = "apply" /\ runs'[r].letter = "failed") =>
                /\ applications' = applications
                /\ jobs' = jobs
                /\ ForApplication(jobs'[Head(runs[r].queue)],
                                  runs[r].relevance_threshold + 10)
          /\ (runs[r].pc = "select" /\ runs'[r].pc = "apply") =>
                \A job_id \in 1..Len(jobs) :
                   ForApplication(jobs[job_id], runs[r].relevance_threshold + 10)
                   => \E k \in 1..Len(runs'[r].queue) : runs'[r].queue[k] = job_id
          /\ \A job_id \in runs'[r].applied \ runs[r].applied :
                RowsOfPair(applications', job_id, runs[r].user_id) # {}
      ]_vars
\* An invocation past its application loop whose cover letter failed: the
\* job is still pending, still at or above the application threshold, and
\* without an application of the run's user.
C13_Witness ==
    \E r \in RunIds :
       /\ runs[r].entry = "run" /\ runs[r].pc = "fu_select"
       /\ runs[r].letter = "failed"
       /\ \E job_id \in 1..Len(jobs) :
             /\ ForApplication(jobs[job_id], runs[r].relevance_threshold + 10)
             /\ RowsOfPair(applications, job_id, runs[r].user_id) = {}

\* C14: statuses only move forward: in every step a job that was 'applied'
\* is still 'applied' and an application that was 'followed_up' is still
\* 'followed_up'; no row of either table is removed.
C14_StatusMonotonic ==
    [][/\ Len(jobs') >= Len(jobs)
       /\ Len(applications') >= Len(applications)
       /\ \A job_id \in 1..Len(jobs) :
             jobs[job_id].status = "applied" => jobs'[job_id].status = "applied"
       /\ \A id \in 1..Len(applications) :
             applications[id].status = "followed_up"
             => applications'[id].status = "followed_up"
      ]_vars
\* A later invocation has run its whole course, follow-up included, over an
\* applied job and a followed-up application, and both are as they were.
C14_Witness ==
    /\ runs[1].entry = "run" /\ runs[1].pc = "report"
    /\ runs[1].applied = {} /\ mailed = NoMail
    /\ \E job_id \in 1..Len(jobs) : jobs[job_id].status = "applied"
    /\ \E id \in 1..Len(applications) :
          /\ applications[id].status = "followed_up"
          /\ today - applications[id].application_date > runs[1].days

C17_ConfigErrorsUpFront ==
    [][\A r \in RunIds :
          (/\ runs[r].pc # "raised" /\ runs'[r].pc = "raised"
           /\ runs'[r].result.stage \in {"config", "apply"})
          => runs[r].pc = "idle"
      ]_vars

\* C18: every iteration of the step-4 loop goes on to the next job and adds
\* one to relevant_jobs_found exactly when the score of the job's
\* description against the user's profile text is at or above
\* relevance_threshold, so that the count reported is the number of such jobs.
C18_CountsRelevantJobs ==
    [][\A r \in RunIds :
          runs[r].pc = "score_save" =>
             LET job == Head(runs[r].queue)
                 score == calculate_relevance_score(
                             PyStr(DescOf(job.url)),
                             PyStr(profile_text(runs[r].user_id)))
                 relevant == /\ job.loaded /\ ~score.raised
                             /\ score.value >= runs[r].relevance_threshold
             IN
             /\ runs'[r].pc # "raised"
             /\ runs'[r].relevant_jobs_found =
                   runs[r].relevant_jobs_found + (IF relevant THEN 1 ELSE 0)
      ]_vars

\* C19: an iteration of the application loop, which starts by generating the
\* cover letter, is taken only for a job that has no application of the
\* invocation's user yet.
C19_GeneratesOnlyWithoutRecord ==
    [][\A r \in RunIds :
          (runs[r].pc = "apply" /\ runs'[r] # runs[r])
          => RowsOfPair(applications, Head(runs[r].queue), runs[r].user_id) = {}
      ]_vars

\* C20: the tables an invocation leaves behind after any iteration, where
\* it may be stopped, are valid: every 'applied' job has an application;
\* every application refers to a stored job; an application is created
\* only for a job whose score is at or above the application threshold of
\* the invocation creating it, and that score stays as it is afterwards.
C20_StoppedRunLeavesValidState ==
    [][/\ \A job_id \in 1..Len(jobs') :
             jobs'[job_id].status = "applied"
             => \E k \in 1..Len(applications') : applications'[k].job_id = job_id
       /\ \A k \in 1..Len(applications') :
             applications'[k].job_id \in 1..Len(jobs')
       /\ \A k \in NewRows :
             \E r \in RunIds :
                /\ runs[r].pc = "apply"
                /\ applications'[k].job_id = Head(runs[r].queue)
                /\ jobs'[applications'[k].job_id].relevance_score
                      >= application_threshold(runs[r].relevance_threshold)
       /\ \A k \in 1..Len(applications) :
             jobs'[applications[k].job_id].relevance_score
                = jobs[applications[k].job_id].relevance_score
      ]_vars
\* An invocation stopped by an exception inside its follow-up loop: the
\* tables it leaves hold an 'applied' job, scored at or above the lowest
\* application threshold, with a generated application.
C20_Witness ==
    /\ runs[1].pc = "raised" /\ runs[1].entry = "run"
    /\ runs[1].result.stage = "followup"
    /\ \E job_id \in 1..Len(jobs) :
          /\ jobs[job_id].status = "applied"
          /\ jobs[job_id].relevance_score >= 60
          /\ \E k \in 1..Len(applications) :
                /\ applications[k].job_id = job_id
                /\ applications[k].status = "generated"

\* C21: a call of calculate_relevance_score returns, without raising, a
\* value from 0 to 100; 0 when either text is empty; 100 when the two texts
\* are the same and not empty.
C21_ScoreInRange ==
    call.done =>
       /\ ~call.out.raised
       /\ call.out.value \in 0..100
       /\ (call.a = EmptyText \/ call.b = EmptyText) => call.out.value = 0
       /\ (call.a = call.b /\ call.a # EmptyText) => call.out.value = 100

AllFailed(ans) == \A k \in 1..Len(ans) : ans[k] \in {"nomatch", "raises"}
\* The field of job_data an extractor fills from its (first) selector list.
FieldOf(fn, rec) ==
    CASE fn = "get_job_title" -> rec.title
      [] fn = "get_job_details" -> rec.description
      [] fn = "get_publication_date" -> rec.publication_date
      [] fn = "get_company_and_location" -> rec.company_name
      [] OTHER -> rec.application_link

NothingExtracted(rec) ==
    \A fn \in Extractors : FieldOf(fn, rec) \in {Absent, Missing}
C24_FailedJobOmitted ==
    (call.done /\ call.goto = "error" /\ NothingExtracted(call.job_data))
    => ~call.appended

\* The first strategy of a list whose value is not empty, 0 if there is none.
NonEmpty == {"text", "relative"}
FirstNonEmpty(ans) ==
    IF \E k \in 1..Len(ans) : ans[k] \in NonEmpty
      THEN CHOOSE k \in 1..Len(ans) :
              /\ ans[k] \in NonEmpty
              /\ \A j \in 1..(k - 1) : ans[j] \notin NonEmpty
      ELSE 0
\* A value is the one the chain should give: that of the first non-empty
\* strategy, or none (None, or a text that is empty) when there is no such.
ChainValue(ans, v) ==
    IF FirstNonEmpty(ans) = 0 THEN v \in {Absent, Blank}
    ELSE v.kind \in {"value", "joined"} /\ v.from = FirstNonEmpty(ans)
Answered(ans) == \A k \in 1..Len(ans) : ans[k] \notin {"raises", "badtext"}

\* C25: on a page that loads and answers every selector, title, company
\* name, location, date text and application link each get the value of the
\* first strategy whose value is not empty, and none when there is no such
\* strategy; an element with empty text does not end the chain.
C25_FirstNonEmptyStrategy ==
    (/\ call.done /\ call.goto = "ok" /\ call.fn # "get_job_details"
     /\ Answered(call.ans) /\ Answered(call.ans2))
    => /\ ChainValue(call.ans, FieldOf(call.fn, call.job_data))
       /\ call.fn = "get_company_and_location"
             => ChainValue(call.ans2, call.job_data.location)

\* The score of a job's description against the profile text of a user.
ScoreFor(job, user_id) ==
    calculate_relevance_score(PyStr(job.description),
                              PyStr(profile_text(user_id))).value

\* C26: a job that has a description is scored again by every invocation,
\* whether it has a score or not: the select of the scoring phase returns it.
C26_ScoredJobsRescored ==
    \A job_id \in 1..Len(jobs) :
       jobs[job_id].description # EmptyText
       => \E k \in 1..Len(UnscoredIds(jobs, 1)) : UnscoredIds(jobs, 1)[k] = job_id

\* C27: an invocation of run_daily_scraping for user u touches applications
\* of u only: every row one of its steps adds, every row whose status one of
\* its steps changes and every row one of its steps sends an email about
\* has user id u.
C27_OwnApplicationsOnly ==
    [][\A r \in RunIds :
          (runs[r].entry = "run" /\ runs[r].pc \in {"apply", "followup"}) =>
             /\ \A k \in NewRows : applications'[k].user_id = runs[r].user_id
             /\ \A id \in 1..Len(applications) :
                   applications'[id].status # applications[id].status
                   => applications[id].user_id = runs[r].user_id
             /\ \A id \in 1..Len(applications) :
                   (id \in mailed'.once \ mailed.once
                      \/ id \in mailed'.twice \ mailed.twice)
                   => applications[id].user_id = runs[r].user_id
      ]_vars

\* C28: the score on which an invocation for user u creates an application
\* is the score of the job's description against the profile text of u.
C28_GatedOnOwnScore ==
    [][\A r \in RunIds :
          runs[r].pc = "apply" =>
             \A k \in NewRows :
                jobs[applications'[k].job_id].relevance_score
                   = ScoreFor(jobs[applications'[k].job_id], runs[r].user_id)
      ]_vars

\* C29: no follow-up email is sent about an application whose status has
\* been written "followed_up", so that with status writes that succeed an
\* application gets one email at most, also when two calls run at once.
C29_NoEmailAfterFollowedUp ==
    [][\A id \in 1..Len(applications) :
          (id \in mailed'.once \ mailed.once \/ id \in mailed'.twice \ mailed.twice)
          => applications[id].status = "sent"
      ]_vars

\* C30: when a run has stored an application for a job and the write of the
\* job's status has failed, a later run of the same user that obtains a cover
\* letter for the job and gets an answer to every write leaves the job's
\* status "applied".
C30_LaterRunMarksApplied ==
    [][\A r \in RunIds :
          LET job_id == Head(runs[r].queue) IN
          (/\ runs[r].pc = "apply"
           /\ \E id \in 1..Len(applications) :
                 /\ applications[id].job_id = job_id
                 /\ applications[id].user_id = runs[r].user_id
                 /\ applications[id].status = "generated"
           /\ jobs[job_id].status = "pending"
           /\ runs'[r].pc \in {"apply", "fu_select"}
           /\ runs'[r].letter = "letter")
          => jobs'[job_id].status = "applied"
      ]_vars

\* C31: no step of run_daily_scraping or of send_follow_up_emails takes an
\* application out of status "generated", and no follow-up selection picks
\* an application whose status is "generated", however old it is.
C31_GeneratedStaysOutOfFollowUp ==
    [][/\ runs' # runs =>
            \A id \in 1..Len(applications) :
               applications[id].status = "generated"
               => applications'[id].status = "generated"
       /\ \A r \in RunIds :
            (runs[r].pc = "fu_select" /\ runs'[r].pc = "followup")
            => \A k \in 1..Len(runs'[r].queue) :
                  applications[runs'[r].queue[k]].status # "generated"
      ]_vars

\* A run has made its follow-up selection while an application in status
\* "generated" was older than the run's threshold, and went on to the report
\* without it.
C31_Witness ==
    \E r \in RunIds, id \in 1..Len(applications) :
       /\ runs[r].entry = "run"
       /\ runs[r].pc = "report"
       /\ applications[id].status = "generated"
       /\ applications[id].application_date < today - runs[r].days
       /\ runs[r].followed_up_application_ids = << >>

\* C32: once a job's status is "applied", a run that makes its selection
\* afterwards does not select the job for application and creates no
\* application for it.  The runs follow one another: a run that made its
\* selection before the status was written is not a later run.
C32_AppliedJobNotSelectedAgain ==
    [][\A r \in RunIds :
          /\ (runs[r].pc = "select" /\ runs'[r].pc = "apply")
             => \A k \in 1..Len(runs'[r].queue) :
                   jobs[runs'[r].queue[k]].status # "applied"
          /\ runs[r].pc = "apply"
             => \A id \in NewRows :
                   jobs[applications'[id].job_id].status # "applied"
      ]_vars

\* A run has made its selection and passed the application loop without
\* applying, while a job that another user has an application for was in
\* status "applied" with a score above the run's application threshold.
C32_Witness ==
    \E r \in RunIds, job_id \in 1..Len(jobs), id \in 1..Len(applications) :
       /\ runs[r].entry = "run"
       /\ runs[r].pc = "report"
       /\ runs[r].tried = {}
       /\ jobs[job_id].status = "applied"
       /\ jobs[job_id].relevance_score
             >= application_threshold(runs[r].relevance_threshold)
       /\ applications[id].job_id = job_id
       /\ applications[id].status = "generated"
       /\ applications[id].user_id # runs[r].user_id

\* C33 (as stated): a job is counted in jobs_scored_count only while no run
\* has stored a score for it, a score of 0 included.
CountStep(r) ==
    /\ runs[r].pc = "score_loop"
    /\ runs'[r].pc \in {"score_loop", "select"}
    /\ runs'[r].jobs_scored_count = runs[r].jobs_scored_count + 1
C33_ScoredJobNotCountedAgain ==
    [][\A r \in RunIds :
          CountStep(r) => jobs[Head(runs[r].queue)].relevance_score = Null
      ]_vars

\* C33 (amended): a job is counted in jobs_scored_count only while its stored
\* score is NULL or 0; once a score other than 0 is stored, no later run
\* selects the job as unscored or counts it.
C33_NonZeroScoreNotCountedAgain ==
    [][\A r \in RunIds :
          /\ CountStep(r) => jobs[Head(runs[r].queue)].relevance_score \in {Null, 0}
          /\ (runs[r].pc = "unscored" /\ runs'[r].pc = "score_loop")
             => \A k \in 1..Len(runs'[r].queue) :
                   jobs[runs'[r].queue[k]].relevance_score \in {Null, 0}
      ]_vars

\* A run starts its scoring loop on a selection that leaves out a job
\* whose stored score is not 0.
C33_Witness ==
    \E r \in RunIds, job_id \in 1..Len(jobs) :
       /\ runs[r].pc = "score_loop"
       /\ runs[r].jobs_scored_count = 0
       /\ jobs[job_id].relevance_score > 0
       /\ jobs[job_id].description # EmptyText
       /\ \A k \in 1..Len(runs[r].queue) : runs[r].queue[k] # job_id

\* C34: while a run goes on, applications_generated_count grows by the
\* number of rows the step adds to applications and the list of followed-up
\* ids grows by the number of applications the step moves to "followed_up";
\* the summary reports these two counts.
Moved ==
    {id \in 1..Len(applications) :
        /\ applications[id].status # "followed_up"
        /\ applications'[id].status = "followed_up"}
C35_CountsOrdered ==
    \A r \in RunIds :
       /\ runs[r].relevant_jobs_found <= runs[r].jobs_filtered
       /\ runs[r].jobs_filtered <= runs[r].jobs_scraped
       /\ runs[r].pc = "score_save"
          => /\ Len(runs[r].queue) <= runs[r].jobs_filtered
             /\ \A k \in 1..Len(runs[r].queue) :
                   runs[r].queue[k].url \in 1..runs[r].jobs_scraped
             /\ \A k \in 1..(Len(runs[r].queue) - 1) :
                   runs[r].queue[k].url < runs[r].queue[k + 1].url
       /\ (runs[r].pc = "done" /\ runs[r].result.status = "success")
          => /\ runs[r].result.relevant_jobs_found <= runs[r].result.jobs_filtered
             /\ runs[r].result.jobs_filtered <= runs[r].result.jobs_scraped

\* A run whose crawl returned jobs and whose filter kept none of them has
\* returned its summary.
C35_Witness ==
    \E r \in RunIds :
       /\ runs[r].pc = "done"
       /\ runs[r].result.status = "success"
       /\ runs[r].result.jobs_scraped = MaxBatch
       /\ runs[r].result.jobs_filtered = 0

\* C36: when the next-page control is looked up, the browser shows the
\* search-results page whose job links this iteration collected.
C36_NextLookedUpOnResultsPage ==
    [][(/\ c_pc = "expand"
        /\ job_urls = {}
        /\ c_pc' # "expand" \/ page_i' # page_i)
       => page_doc = "results"
      ]_vars

\* C37: a link is the href itself when the href is absolute, and otherwise
\* the href resolved against the origin (scheme and host) of the document
\* it was found in; this for the job links of a results page and for the
\* application link of a job page.
AgainstOrigin(page_url, href) ==
    IF StartsWithHttp(href) THEN href
    ELSE SubSeq(page_url, 1, 4) \o (IF Head(href) = Slash THEN << >> ELSE <<Slash>>) \o href
C37_LinksResolvedAgainstOrigin ==
    (call.fn = "href" /\ call.done)
    => /\ Head(call.href) = Slash
          => call.job_link = AgainstOrigin(call.page_url, call.href)
       /\ (Head(call.href) = Slash /\ Len(call.page_url) > 5)
          => call.application_link = AgainstOrigin(call.page_url, call.href)

\* C38: when score_unscored_jobs gets no profile, or a profile whose text
\* is empty, it returns with a count of 0 and leaves every job as it is; the
\* scoring loop runs only with a profile text.  In the loop a job without a
\* description keeps its score and is not counted, and the loop goes on
\* with the jobs after it.
C38_NoProfileOrDescriptionSkips ==
    [][\A r \in RunIds :
          /\ (runs[r].pc = "unscored" /\ runs'[r].profile \in {"empty", "error"})
             => /\ runs'[r].pc = "select"
                /\ runs'[r].jobs_scored_count = 0
                /\ jobs' = jobs
          /\ runs'[r].pc = "score_loop" => runs'[r].profile = "data"
          /\ (/\ runs[r].pc = "score_loop"
              /\ jobs[Head(runs[r].queue)].description = EmptyText)
             => /\ jobs' = jobs
                /\ runs'[r].jobs_scored_count = runs[r].jobs_scored_count
                /\ runs'[r].queue = Tail(runs[r].queue)
                /\ runs'[r].pc = IF Len(runs[r].queue) > 1 THEN "score_loop"
                                                            ELSE "select"
      ]_vars

\* An earlier run has skipped the job without a description and stored a
\* score of 0 for the other one; a later run has found no usable profile and
\* left score_unscored_jobs with a count of 0, both jobs still unscored.
C38_Witness ==
    \E r \in RunIds :
       /\ runs[r].pc = "select"
       /\ runs[r].profile \in {"empty", "error"}
       /\ runs[r].jobs_scored_count = 0
       /\ Len(jobs) = 2
       /\ jobs[1].description = EmptyText /\ jobs[1].relevance_score = Null
       /\ jobs[2].description # EmptyText /\ jobs[2].relevance_score = 0

====
